---- MODULE Spec2Model ----
(***************************************************************************)
(* Model of automation/collect-data.js: the data-collection script of the  *)
(* Inn From the Storm website.  One process run is main(): it creates the  *)
(* output directory, runs the selected collectors one after another, and   *)
(* in a full run writes the combined summary.  The process may be started  *)
(* again (README: "Scheduled Collection"); the output directory and its    *)
(* files persist from one run to the next, everything else is rebuilt.     *)
(*                                                                         *)
(* Strings are abbreviated only where noted; every statistics entry keeps  *)
(* its metric and value, the two fields every entry of the source has.     *)
(***************************************************************************)
EXTENDS Integers, Sequences, FiniteSets, TLC

\* ------------------------------------------------------------------ bounds
\* Number of consecutive process runs explored.
MaxRuns == 2
\* Largest value of the wall clock (new Date()) explored.
MaxClock == 1

\* --------------------------------------------------------------- constants
Collectors == {"cdc", "missouri", "bjs"}

\* The flags main() tests for with args.includes(...).
RecognizedFlags == {"--all", "--cdc", "--missouri", "--bjs"}

\* One flag main() never tests for stands for every unrecognized flag.
UnknownFlags == {"--verbose"}

\* process.argv.slice(2): only membership and emptiness are ever read.
ArgSets == SUBSET (RecognizedFlags \cup UnknownFlags)

FlagOf(c) ==
  CASE c = "cdc" -> "--cdc"
    [] c = "missouri" -> "--missouri"
    [] c = "bjs" -> "--bjs"

FileOf(c) ==
  CASE c = "cdc" -> "cdc-hiv-aids.json"
    [] c = "missouri" -> "missouri-doc.json"
    [] c = "bjs" -> "bjs-recidivism.json"

SummaryFile == "summary.json"
StatsFile == "website-stats.json"
FileNames == {FileOf(c) : c \in Collectors} \cup {SummaryFile, StatsFile}

\* Only the CDC and Missouri collectors call axios.get.
HasFetch(c) == c \in {"cdc", "missouri"}

SourceName(c) ==
  CASE c = "cdc" -> "CDC - Centers for Disease Control and Prevention"
    [] c = "missouri" -> "Missouri Department of Corrections"
    [] c = "bjs" -> "Bureau of Justice Statistics (BJS)"

CategoryName(c) ==
  CASE c = "cdc" -> "HIV/AIDS in Correctional Settings"
    [] c = "missouri" -> "Missouri Incarceration Statistics"
    [] c = "bjs" -> "Recidivism and Reentry Statistics"

Stat(m, v) == [metric |-> m, value |-> v]

\* As LiveStats, were the Missouri collector to push a live entry as well.
LiveStatsMissouriToo(c) ==
  IF c \in {"cdc", "missouri"}
    THEN << Stat("HIV Rate in Prisons vs General Population", "5x higher") >>
    ELSE << >>

\* The entries a collector pushes inside its inner try, after the awaited
\* axios.get has resolved: CDC pushes one, Missouri only logs.
LiveStats(c) ==
  IF c = "cdc"
    THEN << Stat("HIV Rate in Prisons vs General Population", "5x higher") >>
    ELSE << >>

\* The entries a collector always pushes (the second statistics.push).
ReferenceStats(c) ==
  CASE c = "cdc" ->
         << Stat("HIV Prevalence in State Prisons", "1.3%"),
            Stat("Women with HIV in Prison", "1.9%"),
            Stat("AIDS-Related Deaths in Prison", "Declining"),
            Stat("Hepatitis C in Prisons", "17-25%") >>
    [] c = "missouri" ->
         << Stat("Total Missouri Prison Population", "~23,000"),
            Stat("Female Prison Population in Missouri", "~2,300"),
            Stat("African American Incarceration Rate (Missouri)", "5x higher"),
            Stat("Women Released Annually (Missouri)", "~3,000"),
            Stat("Primary Women's Facility", "Chillicothe Correctional Center") >>
    [] c = "bjs" ->
         << Stat("National Recidivism Rate (5 years)", "44%"),
            Stat("Women's Recidivism Rate", "~40%"),
            Stat("3-Year Rearrest Rate", "68%"),
            Stat("First Year Recidivism", "29%") >>

\* The supplementary sections, each by the keys of its items, in order.
Sections(c) ==
  CASE c = "cdc" ->
         [keyFindings |-> << "disproportionate HIV/AIDS", "women higher than men",
                             "African American women", "post-release healthcare",
                             "testing gaps" >>]
    [] c = "missouri" ->
         [reentryStatistics |-> << Stat("Housing", "60%+"), Stat("Employment", "27%"),
                                   Stat("Healthcare Access", "70%"),
                                   Stat("Mental Health", "75%"),
                                   Stat("Substance Abuse", "60%"),
                                   Stat("Trauma History", "86%") >>]
    [] c = "bjs" ->
         [africanAmericanWomenStatistics |->
            << Stat("Incarceration Rate Disparity", "2x"),
               Stat("Lifetime Likelihood of Imprisonment", "1 in 18"),
               Stat("Percentage of Female Prison Population", "~22%") >>,
          whatWorks |-> << "Education Programs", "Vocational Training",
                           "Cognitive Behavioral Therapy", "Mentorship Programs",
                           "Transitional Housing", "Employment Assistance" >>]

Resources(c) ==
  CASE c = "cdc" -> << "CDC HIV and Corrections", "CDC HIV Statistics" >>
    [] c = "missouri" -> << "Missouri DOC", "Missouri DOC Data & Statistics",
                            "Missouri Reentry Process" >>
    [] c = "bjs" -> << "Bureau of Justice Statistics", "BJS Recidivism Studies",
                       "The Sentencing Project" >>

\* `const data = {...}` at the top of a collector, stamped with new Date().
NewDataset(c, t) ==
  [kind |-> "dataset", source |-> SourceName(c), lastUpdated |-> t,
   category |-> CategoryName(c), statistics |-> << >>,
   sections |-> << >>, resources |-> << >>]

\* The dataset after the body of the outer try, up to the call of saveData.
BuildDataset(d, c, fetched) ==
  [d EXCEPT !.statistics =
              d.statistics \o (IF fetched THEN LiveStats(c) ELSE << >>)
                           \o ReferenceStats(c),
            !.sections = Sections(c),
            !.resources = Resources(c)]

\* The value of a variable holding no dataset (null).
Null == [kind |-> "null"]

\* A file that does not exist, and a file a failed write left truncated.
NoFile == [kind |-> "absent"]
Partial == [kind |-> "partial"]

MissouriSpecific ==
  [totalIncarcerated |-> "~23,000", femalePopulation |-> "~2,300",
   releasedAnnually |-> "~3,000 women",
   primaryFacility |-> "Chillicothe Correctional Center",
   racialDisparity |-> "5x higher incarceration rate for African Americans"]

\* The summary object literal of createSummary.
SummaryLiteral(t) ==
  [kind |-> "summary",
   title |-> "Inn From the Storm - Impact Data Summary",
   generatedAt |-> t,
   keyStatistics |->
     << Stat("African American Women Incarceration Rate", "2x higher than white women"),
        Stat("Housing Instability After Release", "60%+"),
        Stat("HIV Rate in Incarcerated Women", "5x higher than general population"),
        Stat("National Recidivism Rate", "44%"),
        Stat("IFTS Success Rate", "Only 2 lost to the system") >>,
   impactAreas |-> << "legal", "education", "health", "housing", "employment",
                      "mentorship" >>,
   missouriSpecific |-> MissouriSpecific,
   dataSources |-> << "CDC - Centers for Disease Control and Prevention",
                      "Missouri Department of Corrections",
                      "Bureau of Justice Statistics", "The Sentencing Project",
                      "Prison Policy Initiative", "RAND Corporation" >>]

\* As SummaryContent, were the key statistics extended from the CDC dataset.
SummaryContentDerived(cdc, mo, bjs, t) ==
  [SummaryLiteral(t) EXCEPT
     !.keyStatistics = @ \o (IF cdc = Null THEN << >> ELSE cdc.statistics)]

\* As SummaryContent, were dataSources to list the first three sources only
\* for the datasets that are present.
SummaryContentSourcesPresent(cdc, mo, bjs, t) ==
  [SummaryLiteral(t) EXCEPT
     !.dataSources =
        (IF cdc = Null THEN << >>
           ELSE << "CDC - Centers for Disease Control and Prevention" >>)
        \o (IF mo = Null THEN << >> ELSE << "Missouri Department of Corrections" >>)
        \o (IF bjs = Null THEN << >> ELSE << "Bureau of Justice Statistics" >>)
        \o << "The Sentencing Project", "Prison Policy Initiative",
              "RAND Corporation" >>]

\* The summary createSummary(cdcData, missouriData, bjsData) builds: its
\* arguments are not read.
SummaryContent(cdc, mo, bjs, t) == SummaryLiteral(t)

\* The websiteStats object literal of createSummary.
WebsiteStats(t) ==
  [kind |-> "stats", lastUpdated |-> t,
   stats |-> << [key |-> "incarceration_disparity", value |-> "2x"],
                [key |-> "housing_instability", value |-> "60%"],
                [key |-> "hiv_rate", value |-> "5x"],
                [key |-> "recidivism_national", value |-> "44%"],
                [key |-> "education_impact", value |-> "43%"],
                [key |-> "trauma_history", value |-> "86%"] >>]

\* The npm scripts of the README (collect, collect:cdc, collect:missouri,
\* collect:bjs): the argument lists a scheduled or manual re-run uses.
NpmScripts == {{}, {"--cdc"}, {"--missouri"}, {"--bjs"}}

\* ------------------------------------------------------------------- state
VARIABLES
  run,       \* number of this process run
  now,       \* the wall clock read by new Date()
  args,      \* process.argv.slice(2)
  outDir,    \* what OUTPUT_DIR is on disk: "absent", "dir", or (a path taken by) "file"
  files,     \* content of each file of OUTPUT_DIR
  pc,        \* where main is: at an await, between statements, settled, exited
  step,      \* index in MainOrder of the statement main executes next
  data,      \* the object under construction in the running function
  result,    \* cdcData, missouriData, bjsData of main
  err,       \* the error main's promise rejected with
  log,       \* console output of this run
  exitCode,  \* exit status of the process, -1 while it runs
  fetched,   \* history: outcome of each collector's axios.get in this run
  wres,      \* history: outcome of each file's write in this run
  invoked,   \* history: the functions main has called in this run
  aggArgs,   \* history: the arguments createSummary was called with
  trace,     \* history: start and end of every I/O operation of this run
  files0,    \* history: the files as they were when this run started
  last       \* history: how the previous run went

vars == << run, now, args, outDir, files, pc, step, data, result, err, log,
           exitCode, fetched, wres, invoked, aggArgs, trace, files0, last >>

\* As MainOrder, were the Missouri collector called before the CDC one.
MainOrderSwapped == << "missouri", "cdc", "bjs", "summary" >>

\* The four guarded calls of main, in program order.
MainOrder == << "cdc", "missouri", "bjs", "summary" >>

\* As collectAll, were the test for an empty argument list missing.
collectAllFlagOnly(a) == "--all" \in a

\* As collectAll, were every run a full run.
collectAllAlways(a) == TRUE

\* const collectAll = args.length === 0 || args.includes('--all')
collectAll(a) == a = {} \/ "--all" \in a

\* The condition of the if-statement guarding each call of main.
Runs(comp, a) ==
  IF comp = "summary" THEN collectAll(a) ELSE collectAll(a) \/ FlagOf(comp) \in a

\* ensureOutputDir: an EEXIST error of mkdir is swallowed, any other rethrown.
AfterMkdir(code) ==
  IF code = "ok" \/ code = "EEXIST" THEN "main" ELSE "rejected"

\* As AfterFetch, were the inner try/catch missing: a rejected fetch lands in
\* the outer catch.
AfterFetchUncaught(ok) == IF ok THEN "build" ELSE "catch"

\* The inner try/catch around axios.get: both outcomes fall through to the
\* statements that build the dataset.
AfterFetch(ok) == "build"

\* As OnWriteError, were saveData called outside the outer try.
OnWriteErrorThrows(c) == "throw"

\* As OnWriteError, were the catch block to return the dataset it built.
OnWriteErrorReturnsData(c) == "data"

\* The outer try/catch of a collector: an error of saveData is caught,
\* logged, and null is returned.
OnWriteError(c) == "null"

\* fs.writeFile replaces the content of the file.
WriteContent(old, new) == new

NoResults == [c \in Collectors |-> Null]
NoFetches == [c \in Collectors |-> "none"]
NoWrites == [f \in FileNames |-> "none"]
NoFiles == [f \in FileNames |-> NoFile]

\* The five files as a complete earlier run at time 0, without network, left them.
EarlierFiles ==
  [f \in FileNames |->
     CASE f = SummaryFile -> SummaryContent(Null, Null, Null, 0)
       [] f = StatsFile -> WebsiteStats(0)
       [] OTHER ->
            LET c == CHOOSE x \in Collectors : FileOf(x) = f
            IN  BuildDataset(NewDataset(c, 0), c, FALSE)]

FirstRun == [done |-> "none", args |-> {}, fetched |-> NoFetches, wres |-> NoWrites]

ProcessStart ==
  /\ pc = "start"
  /\ step = 1
  /\ data = Null
  /\ result = NoResults
  /\ err = "none"
  /\ log = << >>
  /\ exitCode = -1
  /\ fetched = NoFetches
  /\ wres = NoWrites
  /\ invoked = {}
  /\ aggArgs = NoResults
  /\ trace = << >>

Init ==
  /\ run = 1
  /\ now \in 0..MaxClock
  /\ args \in ArgSets
  /\ outDir \in {"absent", "dir", "file"}
  /\ files \in (IF outDir = "dir" THEN {NoFiles, EarlierFiles} ELSE {NoFiles})
  /\ files0 = files
  /\ last = FirstRun
  /\ ProcessStart

Started(op, target) == << "start", op, target >>
Ended(op, target) == << "end", op, target >>

Cur == MainOrder[step]

\* ------------------------------------------------------------------ main()
\* main: the banner, then `await ensureOutputDir()` starts fs.mkdir.
MkdirStart ==
  /\ pc = "start"
  /\ pc' = "mkdir"
  /\ log' = Append(log, << "banner" >>)
  /\ trace' = Append(trace, Started("mkdir", "data"))
  /\ UNCHANGED << run, now, args, outDir, files, step, data, result, err,
                  exitCode, fetched, wres, invoked, aggArgs, files0, last >>

\* What main does once fs.mkdir has settled with `code`.
MkdirSettled(code) ==
  /\ pc' = AfterMkdir(code)
  /\ err' = IF AfterMkdir(code) = "rejected" THEN code ELSE err
  /\ trace' = Append(trace, Ended("mkdir", "data"))
  /\ UNCHANGED << run, now, args, files, step, data, result, log,
                  exitCode, fetched, wres, invoked, aggArgs, files0, last >>

\* fs.mkdir(OUTPUT_DIR, {recursive: true}) as the state of the disk decides:
\* it creates the directory, accepts an existing one, and fails with EEXIST
\* where the path is taken by a file.
MkdirDone ==
  /\ pc = "mkdir"
  /\ outDir' = IF outDir = "file" THEN "file" ELSE "dir"
  /\ MkdirSettled(IF outDir = "file" THEN "EEXIST" ELSE "ok")

\* fs.mkdir refused by the operating system (the parent is not writable).
MkdirFault ==
  /\ pc = "mkdir"
  /\ outDir = "absent"
  /\ outDir' = outDir
  /\ MkdirSettled("EACCES")

\* An if-statement of main whose condition is false.
MainSkip ==
  /\ pc = "main"
  /\ step <= Len(MainOrder)
  /\ ~Runs(Cur, args)
  /\ step' = step + 1
  /\ UNCHANGED << run, now, args, outDir, files, pc, data, result, err, log,
                  exitCode, fetched, wres, invoked, aggArgs, trace, files0, last >>

\* ------------------------------------------------------------- collectors
\* The call of a collector up to its first await: axios.get for CDC and
\* Missouri, saveData for BJS, which fetches nothing.
CollectorStart(c) ==
  /\ pc = "main"
  /\ step <= Len(MainOrder)
  /\ Cur = c
  /\ Runs(c, args)
  /\ invoked' = invoked \cup {c}
  /\ log' = Append(log, << "collecting", c >>)
  /\ IF HasFetch(c)
       THEN /\ data' = NewDataset(c, now)
            /\ pc' = "fetch"
            /\ trace' = Append(trace, Started("fetch", c))
       ELSE /\ data' = BuildDataset(NewDataset(c, now), c, FALSE)
            /\ pc' = "write"
            /\ trace' = Append(trace, Started("write", FileOf(c)))
  /\ UNCHANGED << run, now, args, outDir, files, step, result, err,
                  exitCode, fetched, wres, aggArgs, files0, last >>

\* The collector's return to main with value v: main assigns it and goes on.
ReturnToMain(c, v) ==
  /\ result' = [result EXCEPT ![c] = v]
  /\ data' = Null
  /\ pc' = "main"
  /\ step' = step + 1

\* axios.get settles: it resolves (ok) or rejects (timeout, network error,
\* non-success status).  The collector then builds its dataset and calls
\* saveData.
FetchDone(c, ok) ==
  /\ pc = "fetch"
  /\ Cur = c
  /\ fetched' = [fetched EXCEPT ![c] = IF ok THEN "ok" ELSE "fail"]
  /\ IF AfterFetch(ok) = "build"
       THEN /\ data' = BuildDataset(data, c, ok)
            /\ pc' = "write"
            /\ log' = log \o (IF ~ok THEN << << "warn", c >> >>
                              ELSE IF c = "missouri" THEN << << "fetched", c >> >>
                              ELSE << >>)
            /\ trace' = trace \o << Ended("fetch", c), Started("write", FileOf(c)) >>
            /\ UNCHANGED << step, result >>
       ELSE /\ ReturnToMain(c, Null)
            /\ log' = Append(log, << "error", c >>)
            /\ trace' = Append(trace, Ended("fetch", c))
  /\ UNCHANGED << run, now, args, outDir, files, err, exitCode, wres,
                  invoked, aggArgs, files0, last >>

\* What a collector does once the fs.writeFile of saveData has settled with
\* `code`, leaving `content` in the file.
CollectorSaved(c, code, content) ==
  /\ files' = [files EXCEPT ![FileOf(c)] = content]
  /\ wres' = [wres EXCEPT ![FileOf(c)] = IF code = "ok" THEN "ok" ELSE "fail"]
  /\ trace' = Append(trace, Ended("write", FileOf(c)))
  /\ IF code = "ok"
       THEN /\ ReturnToMain(c, data)
            /\ log' = Append(log, << "saved", FileOf(c) >>)
            /\ err' = err
       ELSE CASE OnWriteError(c) = "null" ->
                   /\ ReturnToMain(c, Null)
                   /\ log' = Append(log, << "error", c >>)
                   /\ err' = err
              [] OnWriteError(c) = "data" ->
                   /\ ReturnToMain(c, data)
                   /\ UNCHANGED << log, err >>
              [] OTHER ->
                   /\ pc' = "rejected"
                   /\ err' = code
                   /\ UNCHANGED << step, data, result, log >>
  /\ UNCHANGED << run, now, args, outDir, exitCode, fetched, invoked,
                  aggArgs, files0, last >>

\* fs.writeFile as the state of the disk decides: it replaces the file when
\* the directory exists and fails with ENOENT otherwise.
CollectorWriteDone(c) ==
  /\ pc = "write"
  /\ Cur = c
  /\ IF outDir = "dir"
       THEN CollectorSaved(c, "ok", WriteContent(files[FileOf(c)], data))
       ELSE CollectorSaved(c, "ENOENT", files[FileOf(c)])

\* fs.writeFile refused by the operating system (permission denied, disk
\* full): the file is left as it was or truncated.
CollectorWriteFault(c) ==
  /\ pc = "write"
  /\ Cur = c
  /\ outDir = "dir"
  /\ \E left \in {files[FileOf(c)], Partial} : CollectorSaved(c, "EACCES", left)

\* ------------------------------------------------------------ createSummary
\* The call of createSummary up to its first await, saveData('summary.json').
SummaryStart ==
  /\ pc = "main"
  /\ step <= Len(MainOrder)
  /\ Cur = "summary"
  /\ Runs("summary", args)
  /\ invoked' = invoked \cup {"summary"}
  /\ aggArgs' = result
  /\ log' = Append(log, << "creating-summary" >>)
  /\ data' = SummaryContent(result["cdc"], result["missouri"], result["bjs"], now)
  /\ pc' = "summary_write"
  /\ trace' = Append(trace, Started("write", SummaryFile))
  /\ UNCHANGED << run, now, args, outDir, files, step, result, err,
                  exitCode, fetched, wres, files0, last >>

\* A write of createSummary has failed: nothing catches the error, so the
\* promise of main rejects with it.
AggregatorThrows(f, code, content) ==
  /\ files' = [files EXCEPT ![f] = content]
  /\ wres' = [wres EXCEPT ![f] = "fail"]
  /\ trace' = Append(trace, Ended("write", f))
  /\ pc' = "rejected"
  /\ err' = code
  /\ UNCHANGED << run, now, args, outDir, step, data, result, log, exitCode,
                  fetched, invoked, aggArgs, files0, last >>

\* summary.json is written; createSummary builds websiteStats and starts
\* saveData('website-stats.json').
SummarySaved ==
  /\ files' = [files EXCEPT ![SummaryFile] = WriteContent(files[SummaryFile], data)]
  /\ wres' = [wres EXCEPT ![SummaryFile] = "ok"]
  /\ log' = Append(log, << "saved", SummaryFile >>)
  /\ data' = WebsiteStats(now)
  /\ pc' = "stats_write"
  /\ trace' = trace \o << Ended("write", SummaryFile), Started("write", StatsFile) >>
  /\ UNCHANGED << run, now, args, outDir, step, result, err, exitCode,
                  fetched, invoked, aggArgs, files0, last >>

SummaryWriteDone ==
  /\ pc = "summary_write"
  /\ IF outDir = "dir"
       THEN SummarySaved
       ELSE AggregatorThrows(SummaryFile, "ENOENT", files[SummaryFile])

SummaryWriteFault ==
  /\ pc = "summary_write"
  /\ outDir = "dir"
  /\ \E left \in {files[SummaryFile], Partial} :
       AggregatorThrows(SummaryFile, "EACCES", left)

\* website-stats.json is written; createSummary returns to main.
StatsSaved ==
  /\ files' = [files EXCEPT ![StatsFile] = WriteContent(files[StatsFile], data)]
  /\ wres' = [wres EXCEPT ![StatsFile] = "ok"]
  /\ log' = Append(log, << "saved", StatsFile >>)
  /\ data' = Null
  /\ pc' = "main"
  /\ step' = step + 1
  /\ trace' = Append(trace, Ended("write", StatsFile))
  /\ UNCHANGED << run, now, args, outDir, result, err, exitCode,
                  fetched, invoked, aggArgs, files0, last >>

StatsWriteDone ==
  /\ pc = "stats_write"
  /\ IF outDir = "dir"
       THEN StatsSaved
       ELSE AggregatorThrows(StatsFile, "ENOENT", files[StatsFile])

StatsWriteFault ==
  /\ pc = "stats_write"
  /\ outDir = "dir"
  /\ \E left \in {files[StatsFile], Partial} :
       AggregatorThrows(StatsFile, "EACCES", left)

\* ------------------------------------------------------- the end of a run
\* The completion banner; the promise of main resolves.
Banner ==
  /\ pc = "main"
  /\ step > Len(MainOrder)
  /\ log' = Append(log, << "complete" >>)
  /\ pc' = "resolved"
  /\ UNCHANGED << run, now, args, outDir, files, step, data, result, err,
                  exitCode, fetched, wres, invoked, aggArgs, trace, files0, last >>

\* main().catch(console.error): the rejection is logged and handled.
MainCatch ==
  /\ pc = "rejected"
  /\ log' = Append(log, << "uncaught", err >>)
  /\ pc' = "caught"
  /\ UNCHANGED << run, now, args, outDir, files, step, data, result, err,
                  exitCode, fetched, wres, invoked, aggArgs, trace, files0, last >>

\* The exit status of a process that ends with nothing left to do, no
\* unhandled rejection, and process.exitCode never assigned.
StatusAtExit(settled) == 0

\* Nothing is left to run: the process exits.
ProcessExit ==
  /\ pc \in {"resolved", "caught"}
  /\ exitCode' = StatusAtExit(pc)
  /\ pc' = "exited"
  /\ UNCHANGED << run, now, args, outDir, files, step, data, result, err, log,
                  fetched, wres, invoked, aggArgs, trace, files0, last >>

\* ------------------------------------------------------------ further runs
\* Time passes between two runs.
Tick ==
  /\ pc = "exited"
  /\ now < MaxClock
  /\ now' = now + 1
  /\ UNCHANGED << run, args, outDir, files, pc, step, data, result, err, log,
                  exitCode, fetched, wres, invoked, aggArgs, trace, files0, last >>

\* The script is started again with one of the npm scripts; the disk is as
\* the run before left it.
Rerun ==
  /\ pc = "exited"
  /\ run < MaxRuns
  /\ run' = run + 1
  /\ args' \in NpmScripts
  /\ files0' = files
  /\ last' = [done |-> (IF log[Len(log)] = << "complete" >> THEN "resolved" ELSE "caught"),
              args |-> args, fetched |-> fetched, wres |-> wres]
  /\ pc' = "start"
  /\ step' = 1
  /\ data' = Null
  /\ result' = NoResults
  /\ err' = "none"
  /\ log' = << >>
  /\ exitCode' = -1
  /\ fetched' = NoFetches
  /\ wres' = NoWrites
  /\ invoked' = {}
  /\ aggArgs' = NoResults
  /\ trace' = << >>
  /\ UNCHANGED << now, outDir, files >>

\* ---------------------------------------------------------- specifications
Run ==
  \/ MkdirStart
  \/ MkdirDone
  \/ MainSkip
  \/ \E c \in Collectors : CollectorStart(c)
  \/ \E c \in Collectors, ok \in BOOLEAN : FetchDone(c, ok)
  \/ \E c \in Collectors : CollectorWriteDone(c)
  \/ SummaryStart
  \/ SummaryWriteDone
  \/ StatsWriteDone
  \/ Banner
  \/ MainCatch
  \/ ProcessExit

Faults ==
  \/ MkdirFault
  \/ \E c \in Collectors : CollectorWriteFault(c)
  \/ SummaryWriteFault
  \/ StatsWriteFault

\* One run, with any argument list, on a disk that may refuse any operation.
Next == Run \/ Faults

Spec == Init /\ [][Next]_vars

\* Consecutive runs of the npm scripts on a disk that refuses nothing.
InitRerun ==
  /\ Init
  /\ args \in NpmScripts
  /\ files = NoFiles

NextRerun == Run \/ Tick \/ Rerun

SpecRerun == InitRerun /\ [][NextRerun]_vars

\* ------------------------------------------------------------- vocabulary
\* A file's content with its timestamp field (lastUpdated, generatedAt) blanked.
Strip(x) ==
  IF x.kind \in {"dataset", "stats"} THEN [x EXCEPT !.lastUpdated = 0]
  ELSE IF x.kind = "summary" THEN [x EXCEPT !.generatedAt = 0]
  ELSE x

Pos(comp) == CHOOSE i \in 1..Len(MainOrder) : MainOrder[i] = comp

InLog(line) == \E i \in 1..Len(log) : log[i] = line

RunOver == pc \in {"resolved", "caught", "exited"}

\* The call of comp ended by throwing into main.
Threw(comp) ==
  /\ comp \in invoked
  /\ err # "none"
  /\ step = Pos(comp)
  /\ pc \in {"rejected", "caught", "exited"}

\* The call of comp has ended, by returning or by throwing.
Finished(comp) == comp \in invoked /\ (step > Pos(comp) \/ Threw(comp))

\* The previous run wrote file f.
WroteLast(f) == last.wres[f] = "ok"

\* Dataset a is dataset b with the one live CDC entry in front of its statistics.
OneLiveEntryMore(a, b) ==
  /\ Len(a.statistics) = Len(b.statistics) + 1
  /\ Tail(a.statistics) = b.statistics
  /\ Head(a.statistics) = Stat("HIV Rate in Prisons vs General Population", "5x higher")
  /\ [Strip(a) EXCEPT !.statistics = << >>] = [Strip(b) EXCEPT !.statistics = << >>]

\* ------------------------------------------------------------------ claims
\* C1 as stated: for each collector, the dataset returned and persisted, the
\* timestamp aside, is the same in a run where the fetch succeeds as in a run
\* where it fails: it equals what the previous run persisted.
C1_FetchNeverChangesDataset ==
  \A c \in Collectors :
    (result[c] # Null /\ WroteLast(FileOf(c))) =>
      /\ files[FileOf(c)] = result[c]
      /\ Strip(result[c]) = Strip(files0[FileOf(c)])

\* C1 amended: the Missouri and BJS datasets do not depend on the fetch; the
\* CDC dataset is the same for the same fetch outcome, and on success is the
\* failure dataset with one more entry in front of its statistics.
C1_FetchChangesOnlyCDC ==
  \A c \in Collectors :
    (result[c] # Null /\ WroteLast(FileOf(c))) =>
      /\ files[FileOf(c)] = result[c]
      /\ (c # "cdc" \/ fetched[c] = last.fetched[c]) =>
           Strip(result[c]) = Strip(files0[FileOf(c)])
      /\ (c = "cdc" /\ fetched[c] = "ok" /\ last.fetched[c] = "fail") =>
           OneLiveEntryMore(result[c], files0[FileOf(c)])
      /\ (c = "cdc" /\ fetched[c] = "fail" /\ last.fetched[c] = "ok") =>
           OneLiveEntryMore(files0[FileOf(c)], result[c])

\* C1 witness: both fetching collectors returned a dataset after a fetch whose
\* outcome differs from the previous run's, which persisted one too.
C1_Witness ==
  /\ \A c \in {"cdc", "missouri"} :
       /\ result[c] # Null
       /\ WroteLast(FileOf(c))
       /\ fetched[c] = "ok"
       /\ last.fetched[c] = "fail"
  /\ result["cdc"].lastUpdated # files0[FileOf("cdc")].lastUpdated

\* C2: a collector whose fetch failed and whose write did not fail has, once
\* it is over, thrown nothing and returned a dataset with statistics, which it
\* has written to its own file.
C2_FetchFailureNeverPropagates ==
  \A c \in Collectors :
    (Finished(c) /\ fetched[c] = "fail" /\ wres[FileOf(c)] # "fail") =>
      /\ ~Threw(c)
      /\ result[c] # Null
      /\ result[c].kind = "dataset"
      /\ Len(result[c].statistics) > 0
      /\ wres[FileOf(c)] = "ok"
      /\ files[FileOf(c)] = result[c]

\* C2 witness: both fetches failed and both collectors have written and returned.
C2_Witness ==
  \A c \in {"cdc", "missouri"} :
    Finished(c) /\ fetched[c] = "fail" /\ wres[FileOf(c)] = "ok"

\* C3 as stated: a failed write of a collector's dataset leaves the collector
\* as an error thrown into main.
C3_WriteFailurePropagates ==
  \A c \in Collectors : wres[FileOf(c)] = "fail" => Threw(c)

\* C3 amended: a failed write of a collector's dataset is caught by the
\* collector, which logs it and returns null; main goes on.
C3_WriteFailureReturnsNull ==
  \A c \in Collectors :
    wres[FileOf(c)] = "fail" =>
      /\ Finished(c)
      /\ ~Threw(c)
      /\ result[c] = Null
      /\ InLog(<< "error", c >>)
      /\ ~InLog(<< "saved", FileOf(c) >>)

\* C3 witness: the CDC write failed on an existing directory and main has
\* gone on to the next collector.
C3_Witness ==
  /\ wres[FileOf("cdc")] = "fail"
  /\ outDir = "dir"
  /\ "missouri" \in invoked

\* C4 as stated: a run that ended with an uncaught error has logged it and
\* exited with a non-zero status; a run that exited with status zero has
\* printed the completion banner.
C4_UncaughtErrorExitsNonZero ==
  pc = "exited" =>
    /\ err # "none" => (InLog(<< "uncaught", err >>) /\ exitCode # 0)
    /\ exitCode = 0 => InLog(<< "complete" >>)

\* The arguments hold exactly one recognized flag, the one of collector c.
OnlyFlag(c) == args \cap RecognizedFlags = {FlagOf(c)}

\* C5: in a run with one single-collector flag and not --all, no function
\* but that collector is ever called, no file but its own is written or
\* changed, and the run that reaches the banner has called it.
C5_SingleFlagRunsOneCollector ==
  \A c \in Collectors :
    OnlyFlag(c) =>
      /\ invoked \subseteq {c}
      /\ pc = "resolved" => invoked = {c}
      /\ \A f \in FileNames \ {FileOf(c)} : files[f] = files0[f] /\ wres[f] = "none"
      /\ aggArgs = NoResults
      /\ \A i \in 1..Len(trace) : trace[i][3] \in {"data", c, FileOf(c)}

\* C5 witness: a --cdc run over the files of an earlier full run has written
\* its file anew and reached the banner with the other four as they were.
C5_Witness ==
  /\ OnlyFlag("cdc")
  /\ pc = "resolved"
  /\ files0 = EarlierFiles
  /\ wres[FileOf("cdc")] = "ok"
  /\ files[FileOf("cdc")] # files0[FileOf("cdc")]
  /\ files[SummaryFile] = EarlierFiles[SummaryFile]

\* The arguments ask for a full run: there are none, or --all is among them.
FullRunArgs == args = {} \/ "--all" \in args

\* No operation of this run has failed.
NothingFailed == err = "none" /\ \A f \in FileNames : wres[f] # "fail"

\* C6: a full run (no flags, or --all) that is over with no failed mkdir or
\* write has written all five files, whatever the fetches did, and the
\* summary it wrote gives missouriSpecific.totalIncarcerated as "~23,000".
C6_FullRunWritesFiveFiles ==
  (RunOver /\ FullRunArgs /\ NothingFailed) =>
    /\ \A f \in FileNames : wres[f] = "ok"
    /\ \A c \in Collectors : files[FileOf(c)] = result[c] /\ result[c].kind = "dataset"
    /\ files[SummaryFile].kind = "summary"
    /\ files[SummaryFile].missouriSpecific.totalIncarcerated = "~23,000"
    /\ files[StatsFile].kind = "stats"

\* C6 witness: a run with no flags is over with all five files written after
\* one fetch succeeded and the other failed.
C6_Witness ==
  /\ args = {}
  /\ RunOver
  /\ NothingFailed
  /\ fetched["cdc"] = "fail"
  /\ fetched["missouri"] = "ok"
  /\ files0 = NoFiles
  /\ files[StatsFile] # NoFile

\* The files a function of main writes.
FilesOf(comp) == IF comp = "summary" THEN {SummaryFile, StatsFile} ELSE {FileOf(comp)}

\* C7 as stated: a run that reached the banner has called the functions, and
\* attempted the writes, that its recognized flags alone select.
C7_UnknownFlagsIgnored ==
  pc = "resolved" =>
    LET selected == {comp \in Collectors \cup {"summary"} :
                       Runs(comp, args \ UnknownFlags)}
    IN  /\ invoked = selected
        /\ {f \in FileNames : wres[f] # "none"} = UNION {FilesOf(comp) : comp \in selected}

\* The place of an I/O operation in the order of a run.
Rank(op, target) ==
  CASE op = "mkdir" -> 0
    [] op = "fetch" /\ target = "cdc" -> 1
    [] target = FileOf("cdc") -> 2
    [] op = "fetch" /\ target = "missouri" -> 3
    [] target = FileOf("missouri") -> 4
    [] target = FileOf("bjs") -> 5
    [] target = SummaryFile -> 6
    [] target = StatsFile -> 7

\* C8: the I/O operations of a run happen one at a time, each ended before
\* the next starts, mkdir first, then in the order CDC fetch, CDC write,
\* Missouri fetch, Missouri write, BJS write, summary.json, website-stats.json;
\* and createSummary is called only once every selected collector is over.
C8_StrictlySequential ==
  /\ \A i \in 1..Len(trace) :
       /\ i % 2 = 1 => trace[i][1] = "start"
       /\ i % 2 = 0 => trace[i] = Ended(trace[i - 1][2], trace[i - 1][3])
  /\ \A i, j \in 1..Len(trace) :
       i < j => Rank(trace[i][2], trace[i][3]) <= Rank(trace[j][2], trace[j][3])
  /\ trace # << >> => trace[1] = Started("mkdir", "data")
  /\ invoked # {} => (Len(trace) >= 2 /\ trace[2] = Ended("mkdir", "data"))
  /\ \A c \in Collectors :
       c \in invoked => \A d \in Collectors :
         (Runs(d, args) /\ Rank("write", FileOf(d)) < Rank("write", FileOf(c))) => Finished(d)
  /\ "summary" \in invoked =>
       \A c \in Collectors : Runs(c, args) /\ Finished(c) /\ ~Threw(c)

\* C8 witness: a full run is writing website-stats.json, the last of its
\* eight I/O operations.
C8_Witness ==
  /\ pc = "stats_write"
  /\ Len(trace) = 15
  /\ trace[15] = Started("write", StatsFile)
  /\ fetched["cdc"] = "ok"

\* This run and the one before it were both runs with no flags that reached
\* the banner with all five writes done.
TwoFullRuns ==
  /\ run > 1
  /\ args = {}
  /\ pc \in {"resolved", "exited"}
  /\ \A f \in FileNames : wres[f] = "ok"
  /\ last.args = {}
  /\ last.done = "resolved"
  /\ \A f \in FileNames : last.wres[f] = "ok"

\* C9 as stated: after two consecutive full runs the five files are, their
\* timestamps aside, as the first run left them, whatever the fetches did.
C9_FullRunIdempotent ==
  TwoFullRuns => \A f \in FileNames : Strip(files[f]) = Strip(files0[f])

\* C9 amended: after two consecutive full runs the four files other than
\* cdc-hiv-aids.json are, their timestamps aside, as the first run left them,
\* whatever the fetches did; cdc-hiv-aids.json is too when the CDC fetch ended
\* the same way in both runs, and otherwise differs by the one live entry.
C9_IdempotentButForLiveCDC ==
  TwoFullRuns =>
    /\ \A f \in FileNames \ {FileOf("cdc")} : Strip(files[f]) = Strip(files0[f])
    /\ fetched["cdc"] = last.fetched["cdc"] =>
         Strip(files[FileOf("cdc")]) = Strip(files0[FileOf("cdc")])
    /\ (fetched["cdc"] = "ok" /\ last.fetched["cdc"] = "fail") =>
         OneLiveEntryMore(files[FileOf("cdc")], files0[FileOf("cdc")])
    /\ (fetched["cdc"] = "fail" /\ last.fetched["cdc"] = "ok") =>
         OneLiveEntryMore(files0[FileOf("cdc")], files[FileOf("cdc")])

\* C9 witness: two full runs at different times, the second with the CDC
\* fetch failing after it succeeded and the Missouri fetch the other way.
C9_Witness ==
  /\ TwoFullRuns
  /\ fetched["cdc"] = "fail"
  /\ last.fetched["cdc"] = "ok"
  /\ fetched["missouri"] = "ok"
  /\ last.fetched["missouri"] = "fail"
  /\ \A f \in FileNames : files[f] # files0[f]

\* C10: a collector whose write failed has logged the error and returned
\* null without throwing; the run goes on to call every later selected
\* collector, and a full run calls createSummary with null in the place of
\* that collector and writes both its files unless those writes fail too.
C10_CollectorFailureDoesNotAbort ==
  \A c \in Collectors :
    wres[FileOf(c)] = "fail" =>
      /\ InLog(<< "error", c >>)
      /\ result[c] = Null
      /\ ~Threw(c)
      /\ pc = "resolved" => \A d \in Collectors : Runs(d, args) => Finished(d)
      /\ (FullRunArgs /\ RunOver) =>
           /\ "summary" \in invoked
           /\ aggArgs[c] = Null
           /\ (wres[SummaryFile] # "fail" /\ wres[StatsFile] # "fail") =>
                /\ wres[SummaryFile] = "ok"
                /\ wres[StatsFile] = "ok"
                /\ files[SummaryFile].kind = "summary"
                /\ files[StatsFile].kind = "stats"
                /\ pc # "caught"

\* C10 witness: in a full run the CDC write failed, both later collectors
\* wrote their files, and createSummary, called with null for CDC and a
\* dataset for Missouri, wrote both of its files.
C10_Witness ==
  /\ FullRunArgs
  /\ pc = "resolved"
  /\ wres[FileOf("cdc")] = "fail"
  /\ wres[FileOf("missouri")] = "ok"
  /\ wres[FileOf("bjs")] = "ok"
  /\ aggArgs["cdc"] = Null
  /\ aggArgs["missouri"] # Null
  /\ wres[StatsFile] = "ok"

\* The keys of a DisplayStats, in order.
KeysOf(x) == [i \in 1..Len(x.stats) |-> x.stats[i].key]

\* C11: whatever datasets or nulls createSummary was called with, the summary
\* it wrote is, its timestamp aside, the one a call with three nulls writes,
\* and the DisplayStats it wrote is, its timestamp aside, always the same six
\* entries with the same keys in the same order.
C11_AggregatorIgnoresInputs ==
  /\ wres[SummaryFile] = "ok" =>
       /\ "summary" \in invoked
       /\ Strip(files[SummaryFile]) = Strip(SummaryContent(Null, Null, Null, 0))
       /\ Len(files[SummaryFile].keyStatistics) = 5
       /\ Len(files[SummaryFile].dataSources) = 6
  /\ wres[StatsFile] = "ok" =>
       /\ wres[SummaryFile] = "ok"
       /\ Strip(files[StatsFile]) = Strip(WebsiteStats(0))
       /\ Len(files[StatsFile].stats) = 6
       /\ KeysOf(files[StatsFile]) =
            << "incarceration_disparity", "housing_instability", "hiv_rate",
               "recidivism_national", "education_impact", "trauma_history" >>

\* C11 witness: createSummary, called with the five-entry CDC dataset of a
\* successful fetch, the Missouri dataset and null for BJS, at a time other
\* than 0, has written both of its files.
C11_Witness ==
  /\ wres[StatsFile] = "ok"
  /\ aggArgs["cdc"] # Null
  /\ Len(aggArgs["cdc"].statistics) = 5
  /\ aggArgs["missouri"] # Null
  /\ aggArgs["bjs"] = Null
  /\ files[SummaryFile].generatedAt # 0
====
